---- MODULE Spec2Model ----
(***************************************************************************)
(* Model of the lick sequencing and playback engine of the harmonica ear   *)
(* trainer: AudioPlayer (code/audio_player.py) and the call-and-response   *)
(* control of EarTrainerApp (code/app.py).                                 *)
(*                                                                         *)
(* Units and abstractions                                                  *)
(*  - audio lengths are whole milliseconds, as len(AudioSegment) reports   *)
(*    them; a buffer is a sequence of runs, either silence or a slice      *)
(*    [from, to) of one loaded clip, in the order they were appended; an   *)
(*    empty run adds nothing.  Equal buffers hold the same audio.          *)
(*  - note['duration'] is a multiple of 1/BeatDen beats and is held as the *)
(*    integer numerator; bpm is an integer.  On the values used here the   *)
(*    float product 60000 / bpm * duration truncates to the same integer   *)
(*    as the exact quotient.                                               *)
(*  - a time signature string is a sequence of one-character strings.      *)
(***************************************************************************)
EXTENDS Integers, Sequences, FiniteSets, TLC

VARIABLES
    harmonica_samples,        \* AudioPlayer.harmonica_samples: tab -> clip
    metronome_click_1,        \* AudioPlayer.metronome_click_1 (accent)
    metronome_click_2,        \* AudioPlayer.metronome_click_2 (normal)
    stop_call_and_response,   \* AudioPlayer.stop_call_and_response
    current_lick,             \* EarTrainerApp.current_lick
    current_key,              \* EarTrainerApp.current_key
    bpm_slider,               \* EarTrainerApp.bpm_slider value
    call_and_response_active, \* EarTrainerApp.call_and_response_active
    call_and_response_thread, \* EarTrainerApp.call_and_response_thread (0 = None)
    threads,                  \* the threading.Thread objects created so far
    nthreads,                 \* how many threads were created
    ui_pc,                    \* where the UI (main) thread is
    ui_result,                \* outcome of the last play_lick call
    cr_result,                \* outcome of the last direct build of the call/response parts
    load_call                 \* the last load_harp_samples call: key, files left, result

vars == <<harmonica_samples, metronome_click_1, metronome_click_2,
          stop_call_and_response, current_lick, current_key, bpm_slider,
          call_and_response_active, call_and_response_thread, threads,
          nthreads, ui_pc, ui_result, cr_result, load_call>>

----------------------------------------------------------------------------
(* Bounds of the model *)

MaxLickLen == 2      \* longest lick_data list enumerated
MaxThreads == 2      \* most threads created in one run
MaxSigLen == 3       \* longest time signature string enumerated
MaxCounted == 2      \* segments begun after a stop request are counted up to this

(* Program constants *)

MsPerMinute == 60000       \* the 60000 of quarter_note_duration_ms
DefaultBeatsPerMeasure == 4
BeatDen == 4               \* note['duration'] is held in 1/4 beats

----------------------------------------------------------------------------
(* Integer helpers *)

Abs(x) == IF x < 0 THEN -x ELSE x

Min(a, b) == IF a <= b THEN a ELSE b

Max(a, b) == IF a >= b THEN a ELSE b

\* Python int() of the quotient a / b: truncation toward zero (b # 0)
TruncDiv(a, b) ==
    IF (a >= 0) = (b > 0) THEN Abs(a) \div Abs(b) ELSE -(Abs(a) \div Abs(b))

----------------------------------------------------------------------------
(* pydub AudioSegment values *)

NoClip == [loaded |-> FALSE, name |-> <<>>, len |-> 0]

Clip(n, l) == [loaded |-> TRUE, name |-> n, len |-> l]

\* Python truth value of "sample" / "self.metronome_click_1":
\* None is falsy, and so is an AudioSegment whose len() is 0
Truthy(clip) == clip.loaded /\ clip.len > 0

Run(k, c, f, t) == [kind |-> k, clip |-> c, from |-> f, to |-> t]

\* AudioSegment.silent(duration=d): int(frame_rate * d / 1000) frames, none if d <= 0
Silent(d) == Run("silence", <<>>, 0, Max(d, 0))

\* Slice that fills the whole slot by repeating the clip
Slice_Looped(clip, d) == Run("clip", clip.name, 0, Max(d, 0))

\* sample[:d].  d >= 0 cuts at min(d, len); a negative d counts from the end
\* of the clip (len - |d|), and past the start it counts from the end again.
Slice(clip, d) ==
    LET l == clip.len
        e == IF d >= 0 THEN Min(d, l)
             ELSE IF l + d >= 0 THEN l + d
             ELSE Max(0, l + (l + d))
    IN  Run("clip", clip.name, 0, e)

RunLen(r) == r.to - r.from

NonEmptyRun(r) == RunLen(r) > 0

\* the += of every run of runs, in order, onto AudioSegment.silent(duration=0)
\* (AudioSegment.__add__, append with crossfade 0)
Concat(runs) == SelectSeq(runs, NonEmptyRun)

RECURSIVE BufLen(_)
BufLen(buf) == IF buf = <<>> THEN 0 ELSE RunLen(Head(buf)) + BufLen(Tail(buf))

----------------------------------------------------------------------------
(* time_signature_str.split('/') and int() *)

Digits == {"0", "1", "2", "3", "4", "5", "6", "7", "8", "9"}

DigitVal(c) ==
    CASE c = "0" -> 0 [] c = "1" -> 1 [] c = "2" -> 2 [] c = "3" -> 3
      [] c = "4" -> 4 [] c = "5" -> 5 [] c = "6" -> 6 [] c = "7" -> 7
      [] c = "8" -> 8 [] c = "9" -> 9

\* str.split('/'): the pieces between the slashes, empty pieces included
RECURSIVE SplitSlash(_, _, _)
SplitSlash(s, cur, acc) ==
    IF s = <<>> THEN Append(acc, cur)
    ELSE IF Head(s) = "/" THEN SplitSlash(Tail(s), <<>>, Append(acc, cur))
    ELSE SplitSlash(Tail(s), Append(cur, Head(s)), acc)

RECURSIVE StripLeft(_)
StripLeft(s) == IF s # <<>> /\ Head(s) = " " THEN StripLeft(Tail(s)) ELSE s

RECURSIVE StripRight(_)
StripRight(s) ==
    IF s # <<>> /\ s[Len(s)] = " " THEN StripRight(SubSeq(s, 1, Len(s) - 1)) ELSE s

RECURSIVE DigitsValue(_, _)
DigitsValue(s, acc) ==
    IF s = <<>> THEN acc ELSE DigitsValue(Tail(s), 10 * acc + DigitVal(Head(s)))

\* int(text): surrounding blanks are dropped, one sign is allowed, the rest
\* must be one or more digits; anything else is a ValueError
ParseInt(text) ==
    LET t == StripRight(StripLeft(text))
        signed == t # <<>> /\ Head(t) \in {"-", "+"}
        body == IF signed THEN Tail(t) ELSE t
        ok == body # <<>> /\ \A i \in 1..Len(body) : body[i] \in Digits
    IN  IF ~ok THEN [ok |-> FALSE, value |-> 0]
        ELSE [ok |-> TRUE,
              value |-> IF signed /\ Head(t) = "-" THEN -DigitsValue(body, 0)
                        ELSE DigitsValue(body, 0)]

\* BeatsPerMeasure that unpacks the first field alone: a string whose first
\* field is a number is taken at its word whatever follows
BeatsPerMeasure_FirstField(time_signature_str) ==
    LET parts == SplitSlash(time_signature_str, <<>>, <<>>)
    IN  IF ParseInt(parts[1]).ok THEN ParseInt(parts[1]).value
        ELSE DefaultBeatsPerMeasure

\* lines 117-121: beats_per_measure, _ = map(int, time_signature_str.split('/'))
\* with the ValueError fallback to 4
BeatsPerMeasure(time_signature_str) ==
    LET parts == SplitSlash(time_signature_str, <<>>, <<>>)
    IN  IF Len(parts) = 2 /\ ParseInt(parts[1]).ok /\ ParseInt(parts[2]).ok
        THEN ParseInt(parts[1]).value
        ELSE DefaultBeatsPerMeasure

----------------------------------------------------------------------------
(* Rendering: play_lick and the build phase of play_call_and_response *)

\* NoteDurationMs with round() in place of int()
NoteDurationMs_Rounded(bpm, duration) ==
    TruncDiv(2 * MsPerMinute * duration + BeatDen * bpm, 2 * BeatDen * bpm)

\* quarter_note_duration_ms * duration_in_beats, cut to an int (bpm # 0)
NoteDurationMs(bpm, duration) == TruncDiv(MsPerMinute * duration, BeatDen * bpm)

\* int(quarter_note_duration_ms)
QuarterNoteMs(bpm) == TruncDiv(MsPerMinute, bpm)

HasTab(samples, tab) == tab \in DOMAIN samples

\* self.harmonica_samples.get(tab)
GetSample(samples, tab) == IF HasTab(samples, tab) THEN samples[tab] ELSE NoClip

\* LickNoteRun that drops a note whose sample is missing
LickNoteRun_SkipMissing(samples, note, bpm) ==
    LET note_duration_ms == NoteDurationMs(bpm, note.duration)
        sample == GetSample(samples, note.tab)
    IN  IF note.tab = "rest" THEN Silent(note_duration_ms)
        ELSE IF ~sample.loaded THEN Silent(0)
        ELSE Slice(sample, note_duration_ms)

\* LickNoteRun without the test for "rest": every tab is looked up
LickNoteRun_RestLookedUp(samples, note, bpm) ==
    LET note_duration_ms == NoteDurationMs(bpm, note.duration)
        sample == GetSample(samples, note.tab)
    IN  IF ~sample.loaded THEN Silent(note_duration_ms)
        ELSE Slice(sample, note_duration_ms)

\* lines 85-99: the run one note adds to final_sequence
LickNoteRun(samples, note, bpm) ==
    LET note_duration_ms == NoteDurationMs(bpm, note.duration)
        sample == GetSample(samples, note.tab)
    IN  IF note.tab = "rest" THEN Silent(note_duration_ms)
        ELSE IF ~sample.loaded THEN Silent(note_duration_ms)
        ELSE Slice(sample, note_duration_ms)

\* lines 82-99: the for loop over lick_data
LickSequence(samples, lick_data, bpm) ==
    Concat([i \in 1..Len(lick_data) |-> LickNoteRun(samples, lick_data[i], bpm)])

NoResult == [outcome |-> "none", buffer |-> <<>>]

NoBuild == [outcome |-> "none", call_part |-> <<>>, response_part |-> <<>>]

\* PlayLick without the test of line 77
PlayLick_NoGuard(samples, lick_data, bpm) ==
    IF bpm = 0 THEN [outcome |-> "ZeroDivisionError", buffer |-> <<>>]
    ELSE [outcome |-> "played",
          buffer |-> LickSequence(samples, lick_data, bpm)]

\* play_lick(lick_data, bpm): what the call does
PlayLick(samples, lick_data, bpm) ==
    IF DOMAIN samples = {} THEN [outcome |-> "no_samples", buffer |-> <<>>]
    ELSE IF bpm = 0 THEN [outcome |-> "ZeroDivisionError", buffer |-> <<>>]
    ELSE [outcome |-> "played",
          buffer |-> LickSequence(samples, lick_data, bpm)]

\* lines 129-140: the run one note adds to call_part
CallNoteRun(samples, note, bpm) ==
    LET note_duration_ms == NoteDurationMs(bpm, note.duration)
        sample == GetSample(samples, note.tab)
    IN  IF note.tab = "rest" THEN Silent(note_duration_ms)
        ELSE IF Truthy(sample) THEN Slice(sample, note_duration_ms)
        ELSE Silent(note_duration_ms)

\* lines 127-140
CallPart(samples, lick_data, bpm) ==
    Concat([i \in 1..Len(lick_data) |-> CallNoteRun(samples, lick_data[i], bpm)])

\* line 124: sum(note['duration'] for note in lick_data), in 1/BeatDen beats
RECURSIVE TotalDuration(_)
TotalDuration(lick_data) ==
    IF lick_data = <<>> THEN 0 ELSE Head(lick_data).duration + TotalDuration(Tail(lick_data))

\* line 144: int(total_duration_beats)
NumBeatsTotal(lick_data) == TruncDiv(TotalDuration(lick_data), BeatDen)

\* ClickFor with the beats of a measure counted from 1
ClickFor_OneBased(i, beats_per_measure, click1, click2) ==
    IF (i + 1) % Abs(beats_per_measure) = 0 THEN click1 ELSE click2

\* lines 147-152: which click beat i gets (beats_per_measure # 0);
\* Python's i % b is 0 exactly when |b| divides i
ClickFor(i, beats_per_measure, click1, click2) ==
    IF i % Abs(beats_per_measure) = 0 THEN click1 ELSE click2

\* lines 143-154: beat i of range(num_beats_total) is entry i + 1
ResponsePart(num_beats_total, beats_per_measure, bpm, click1, click2) ==
    Concat([k \in 1..num_beats_total |->
               Slice(ClickFor(k - 1, beats_per_measure, click1, click2),
                     QuarterNoteMs(bpm))])

\* lines 123-154: the two buffers, and the faults of that code
RenderParts(samples, click1, click2, lick_data, bpm, beats_per_measure) ==
    IF bpm = 0 THEN [NoBuild EXCEPT !.outcome = "ZeroDivisionError"]
    ELSE IF beats_per_measure = 0 /\ NumBeatsTotal(lick_data) > 0
         THEN [NoBuild EXCEPT !.outcome = "ZeroDivisionError"]
    ELSE [outcome |-> "built",
          call_part |-> CallPart(samples, lick_data, bpm),
          response_part |-> ResponsePart(NumBeatsTotal(lick_data),
                                beats_per_measure, bpm, click1, click2)]

\* lines 109-115: the two early returns of play_call_and_response
EarlyReturn(samples, click1, click2) ==
    IF DOMAIN samples = {} THEN "no_samples"
    ELSE IF ~Truthy(click1) \/ ~Truthy(click2) THEN "no_metronome"
    ELSE "none"

\* lines 109-154 of play_call_and_response run without interruption
BuildCallAndResponse(samples, click1, click2, lick_data, bpm, time_signature_str) ==
    IF EarlyReturn(samples, click1, click2) # "none"
    THEN [outcome |-> EarlyReturn(samples, click1, click2),
          call_part |-> <<>>, response_part |-> <<>>]
    ELSE RenderParts(samples, click1, click2, lick_data, bpm,
                     BeatsPerMeasure(time_signature_str))

----------------------------------------------------------------------------
(* The sample files on disk and the inputs of the model *)

Keys == {"G", "A", "C"}

\* keys a caller of the engine may ask for; B is not offered by the key menu
LoadKeys == Keys \cup {"B"}

\* os.path.exists(key_path): the folder of key C is missing
HarpFolderExists(key) == key \in {"G", "A", "B"}

\* os.listdir(key_path): the .wav files of a key, tab -> length in ms.
\* G holds a file rest.wav; A holds a clip of length 0.
HarpFolder(key) ==
    IF key = "G" THEN ("-2" :> 300) @@ ("rest" :> 200)
    ELSE IF key = "A" THEN ("-2" :> 1000) @@ ("4" :> 0)
    ELSE IF key = "B" THEN ("-2" :> 400) @@ ("4" :> 500)
    ELSE <<>>

\* AudioSegment.from_wav(sample_path) returns a clip; B_harp/4.wav is not a
\* wav file and from_wav raises on it
Decodable(key, tab) == ~(key = "B" /\ tab = "4")

EmptySamples == <<>>

\* load_harp_samples(key), lines 51-67, run to its end on files that decode
LoadHarpSamples(key) ==
    IF ~HarpFolderExists(key) THEN [samples |-> EmptySamples, ok |-> FALSE]
    ELSE [samples |-> [t \in DOMAIN HarpFolder(key) |-> Clip(<<key, t>>, HarpFolder(key)[t])],
          ok |-> TRUE]

\* no load_harp_samples call was made yet
NoLoad == [key |-> "", pending |-> {}, result |-> "none"]

\* a load_harp_samples(key) call that returned r
Returned(key, r) == [key |-> key, pending |-> {}, result |-> r]

\* _load_metronome_sounds, lines 22-35: each click is loaded if its file exists
Click1Values == {NoClip, Clip(<<"metronome_click1.wav">>, 100)}

Click2Values == {NoClip, Clip(<<"metronome_click.wav">>, 600)}

Tabs == {"-2", "4", "rest"}

Durations == {2, 4, 8}     \* 0.5, 1 and 2 beats

Notes == [tab : Tabs, duration : Durations]

RECURSIVE SeqsUpTo(_, _)
SeqsUpTo(S, n) ==
    IF n = 0 THEN {<<>>}
    ELSE LET shorter == SeqsUpTo(S, n - 1)
         IN  shorter \cup {Append(q, x) : q \in {r \in shorter : Len(r) = n - 1}, x \in S}

LickDatas == SeqsUpTo(Notes, MaxLickLen)

TimeSig44 == <<"4", "/", "4">>

TimeSigs == {TimeSig44, <<"3", "/", "4">>, <<"0", "/", "4">>, <<"x">>}

\* bpm values handed to the engine directly
EngineBpms == {-120, 0, 70, 120, 240}

\* values of the bpm slider (from_=60, to=240)
SliderValues == {70, 120}

NoLick == [present |-> FALSE, lick_data |-> <<>>,
           has_time_signature |-> FALSE, time_signature |-> <<>>]

Lick(data, has_ts, ts) == [present |-> TRUE, lick_data |-> data,
                           has_time_signature |-> has_ts, time_signature |-> ts]

\* the practice licks of the loaded scale file
AppLicks ==
    { Lick(<<[tab |-> "-2", duration |-> 4], [tab |-> "rest", duration |-> 2]>>,
           TRUE, <<"3", "/", "4">>),
      Lick(<<[tab |-> "4", duration |-> 8]>>, FALSE, <<>>) }

\* lick.get("time_signature", "4/4")
TimeSignatureOf(lick) ==
    IF lick.has_time_signature THEN lick.time_signature ELSE TimeSig44

----------------------------------------------------------------------------
(* Threads *)

Tids == 1..MaxThreads

\* begun_after_stop is no local of the function: it counts, for the claims,
\* the play() calls the thread began after a stop request
Unborn == [pc |-> "unborn", lick_data |-> <<>>, bpm |-> 0,
           time_signature_str |-> <<>>, beats_per_measure |-> 0,
           call_part |-> <<>>, response_part |-> <<>>, begun_after_stop |-> 0]

\* threading.Thread(target=self.player.play_call_and_response, args=..., kwargs=...)
\* followed by start(): the thread stands at the first line of the function
Started(lick_data, bpm, time_signature_str) ==
    [pc |-> "entry", lick_data |-> lick_data, bpm |-> bpm,
     time_signature_str |-> time_signature_str, beats_per_measure |-> 0,
     call_part |-> <<>>, response_part |-> <<>>, begun_after_stop |-> 0]

\* the function returned: the thread has ended and its locals are gone
Ended == [Unborn EXCEPT !.pc = "done"]

\* an exception left the function: the thread has ended
Raised == [Unborn EXCEPT !.pc = "raised"]

\* Thread.is_alive(): started and not yet returned or died of an exception
Alive(t) == threads[t].pc \notin {"unborn", "done", "raised"}

AliveThreads == {t \in Tids : Alive(t)}

\* inside a play() call
Playing(t) == threads[t].pc \in {"play_call", "play_response"}

AppVars == <<current_lick, current_key, bpm_slider, call_and_response_active,
             call_and_response_thread>>

ClickVars == <<metronome_click_1, metronome_click_2>>

----------------------------------------------------------------------------
(* play_call_and_response, run by thread t *)

\* lines 109-115
W_Guards(t) ==
    /\ threads[t].pc = "entry"
    /\ threads' = [threads EXCEPT ![t] =
           IF EarlyReturn(harmonica_samples, metronome_click_1, metronome_click_2) = "none"
           THEN [@ EXCEPT !.pc = "parse"] ELSE Ended]
    /\ UNCHANGED <<harmonica_samples, ClickVars, stop_call_and_response, AppVars,
                   nthreads, ui_pc, ui_result, cr_result, load_call>>

\* lines 117-121
W_Parse(t) ==
    /\ threads[t].pc = "parse"
    /\ threads' = [threads EXCEPT ![t] =
           [@ EXCEPT !.pc = "render",
                     !.beats_per_measure =
                         BeatsPerMeasure(threads[t].time_signature_str)]]
    /\ UNCHANGED <<harmonica_samples, ClickVars, stop_call_and_response, AppVars,
                   nthreads, ui_pc, ui_result, cr_result, load_call>>

\* lines 123-154; an exception here ends the thread
W_Render(t) ==
    /\ threads[t].pc = "render"
    /\ LET r == RenderParts(harmonica_samples, metronome_click_1, metronome_click_2,
                            threads[t].lick_data, threads[t].bpm,
                            threads[t].beats_per_measure)
       IN  threads' = [threads EXCEPT ![t] =
               IF r.outcome = "built"
               THEN [@ EXCEPT !.pc = "reset_flag", !.call_part = r.call_part,
                              !.response_part = r.response_part]
               ELSE Raised]
    /\ UNCHANGED <<harmonica_samples, ClickVars, stop_call_and_response, AppVars,
                   nthreads, ui_pc, ui_result, cr_result, load_call>>

\* W_ResetFlag without the assignment of line 157
W_ResetFlag_Skip(t) ==
    /\ threads[t].pc = "reset_flag"
    /\ threads' = [threads EXCEPT ![t].pc = "while"]
    /\ UNCHANGED <<harmonica_samples, ClickVars, stop_call_and_response, AppVars,
                   nthreads, ui_pc, ui_result, cr_result, load_call>>

\* line 157
W_ResetFlag(t) ==
    /\ threads[t].pc = "reset_flag"
    /\ stop_call_and_response' = FALSE
    /\ threads' = [threads EXCEPT ![t].pc = "while"]
    /\ UNCHANGED <<harmonica_samples, ClickVars, AppVars, nthreads, ui_pc,
                   ui_result, cr_result, load_call>>

\* the count of segments begun after a stop request, when one more begins:
\* the stop branch of the toggle is waiting in join() (ui_pc = "join") from
\* its request until the thread has ended
BegunAfterStop(n) ==
    IF ui_pc = "join" THEN Min(n + 1, MaxCounted) ELSE n

\* line 158 and, when the flag is clear, the start of play(call_part)
W_While(t) ==
    /\ threads[t].pc = "while"
    /\ threads' = [threads EXCEPT ![t] =
           IF stop_call_and_response THEN Ended
           ELSE [@ EXCEPT !.pc = "play_call",
                          !.begun_after_stop = BegunAfterStop(@)]]
    /\ UNCHANGED <<harmonica_samples, ClickVars, stop_call_and_response, AppVars,
                   nthreads, ui_pc, ui_result, cr_result, load_call>>

\* W_CallEnd that goes back to the loop test without the response
W_CallEnd_SkipResponse(t) ==
    /\ threads[t].pc = "play_call"
    /\ threads' = [threads EXCEPT ![t] =
           IF stop_call_and_response THEN Ended ELSE [@ EXCEPT !.pc = "while"]]
    /\ UNCHANGED <<harmonica_samples, ClickVars, stop_call_and_response, AppVars,
                   nthreads, ui_pc, ui_result, cr_result, load_call>>

\* play(call_part) returns; lines 160-162
W_CallEnd(t) ==
    /\ threads[t].pc = "play_call"
    /\ threads' = [threads EXCEPT ![t] =
           IF stop_call_and_response THEN Ended
           ELSE [@ EXCEPT !.pc = "play_response",
                          !.begun_after_stop = BegunAfterStop(@)]]
    /\ UNCHANGED <<harmonica_samples, ClickVars, stop_call_and_response, AppVars,
                   nthreads, ui_pc, ui_result, cr_result, load_call>>

\* play(response_part) returns; back to line 158
W_ResponseEnd(t) ==
    /\ threads[t].pc = "play_response"
    /\ threads' = [threads EXCEPT ![t].pc = "while"]
    /\ UNCHANGED <<harmonica_samples, ClickVars, stop_call_and_response, AppVars,
                   nthreads, ui_pc, ui_result, cr_result, load_call>>

Worker(t) ==
    \/ W_Guards(t)
    \/ W_Parse(t)
    \/ W_Render(t)
    \/ W_ResetFlag(t)
    \/ W_While(t)
    \/ W_CallEnd(t)
    \/ W_ResponseEnd(t)

----------------------------------------------------------------------------
(* EarTrainerApp: the handlers run on the UI thread, one at a time *)

\* toggle_call_and_response, lines 342-354: the start branch
ToggleStart ==
    /\ ui_pc = "idle"
    /\ ~call_and_response_active
    /\ current_lick.present
    /\ nthreads < MaxThreads
    /\ call_and_response_active' = TRUE
    /\ nthreads' = nthreads + 1
    /\ call_and_response_thread' = nthreads + 1
    /\ threads' = [threads EXCEPT ![nthreads + 1] =
           Started(current_lick.lick_data, bpm_slider, TimeSignatureOf(current_lick))]
    /\ UNCHANGED <<harmonica_samples, ClickVars, stop_call_and_response, current_lick,
                   current_key, bpm_slider, ui_pc, ui_result, cr_result,
                   load_call>>

\* toggle_call_and_response with no current lick: neither branch does anything
ToggleNoLick ==
    /\ ui_pc = "idle"
    /\ ~call_and_response_active
    /\ ~current_lick.present
    /\ UNCHANGED vars

\* ToggleStop without the join(): the handler finishes at once
ToggleStop_NoJoin ==
    /\ ui_pc = "idle"
    /\ call_and_response_active
    /\ stop_call_and_response' = TRUE
    /\ call_and_response_active' = FALSE
    /\ UNCHANGED <<harmonica_samples, ClickVars, current_lick, current_key,
                   bpm_slider, call_and_response_thread, threads, nthreads,
                   ui_pc, ui_result, cr_result, load_call>>

\* toggle_call_and_response, lines 336-339: set the flag, then wait in join()
ToggleStop ==
    /\ ui_pc = "idle"
    /\ call_and_response_active
    /\ stop_call_and_response' = TRUE
    /\ ui_pc' = "join"
    /\ UNCHANGED <<harmonica_samples, ClickVars, AppVars, threads, nthreads,
                   ui_result, cr_result, load_call>>

\* JoinReturn with a join that does not wait for the thread
JoinReturn_NoWait ==
    /\ ui_pc = "join"
    /\ call_and_response_active' = FALSE
    /\ ui_pc' = "idle"
    /\ UNCHANGED <<harmonica_samples, ClickVars, stop_call_and_response, current_lick,
                   current_key, bpm_slider, call_and_response_thread, threads,
                   nthreads, ui_result, cr_result, load_call>>

\* join() returns once the thread is no longer alive; lines 340-341
JoinReturn ==
    /\ ui_pc = "join"
    /\ call_and_response_thread # 0 => ~Alive(call_and_response_thread)
    /\ call_and_response_active' = FALSE
    /\ ui_pc' = "idle"
    /\ UNCHANGED <<harmonica_samples, ClickVars, stop_call_and_response, current_lick,
                   current_key, bpm_slider, call_and_response_thread, threads,
                   nthreads, ui_result, cr_result, load_call>>

\* play_current_lick, lines 309-310: play_lick blocks the UI thread in play()
PlayCurrentLick ==
    /\ ui_pc = "idle"
    /\ current_lick.present
    /\ ui_result' = PlayLick(harmonica_samples, current_lick.lick_data, bpm_slider)
    /\ ui_pc' = IF ui_result'.outcome = "played" THEN "play_lick" ELSE "idle"
    /\ UNCHANGED <<harmonica_samples, ClickVars, stop_call_and_response, AppVars,
                   threads, nthreads, cr_result, load_call>>

\* play(final_sequence) returns
PlayLickEnd ==
    /\ ui_pc = "play_lick"
    /\ ui_pc' = "idle"
    /\ UNCHANGED <<harmonica_samples, ClickVars, stop_call_and_response, AppVars,
                   threads, nthreads, ui_result, cr_result, load_call>>

\* BeginLoad that tests for the folder before it clears the mapping
BeginLoad_ExistsFirst(key) ==
    IF ~HarpFolderExists(key)
    THEN /\ load_call' = Returned(key, "False")
         /\ UNCHANGED <<harmonica_samples, ui_pc>>
    ELSE /\ harmonica_samples' = EmptySamples
         /\ IF DOMAIN HarpFolder(key) = {}
            THEN load_call' = Returned(key, "True") /\ UNCHANGED ui_pc
            ELSE /\ load_call' = [key |-> key, pending |-> DOMAIN HarpFolder(key),
                                  result |-> "running"]
                 /\ ui_pc' = "load"

\* BeginLoad without the clear() of line 51
BeginLoad_NoClear(key) ==
    /\ UNCHANGED harmonica_samples
    /\ IF ~HarpFolderExists(key)
       THEN load_call' = Returned(key, "False") /\ UNCHANGED ui_pc
       ELSE IF DOMAIN HarpFolder(key) = {}
       THEN load_call' = Returned(key, "True") /\ UNCHANGED ui_pc
       ELSE /\ load_call' = [key |-> key, pending |-> DOMAIN HarpFolder(key),
                             result |-> "running"]
            /\ ui_pc' = "load"

\* load_harp_samples(key), lines 51-60: the mapping is cleared; a missing
\* folder returns False, a folder without .wav files returns True, and
\* otherwise the files of os.listdir are still to be read
BeginLoad(key) ==
    /\ harmonica_samples' = EmptySamples
    /\ IF ~HarpFolderExists(key)
       THEN load_call' = Returned(key, "False") /\ UNCHANGED ui_pc
       ELSE IF DOMAIN HarpFolder(key) = {}
       THEN load_call' = Returned(key, "True") /\ UNCHANGED ui_pc
       ELSE /\ load_call' = [key |-> key, pending |-> DOMAIN HarpFolder(key),
                             result |-> "running"]
            /\ ui_pc' = "load"

\* lines 60-67, one turn of the for loop: the next file os.listdir yields
\* (in any order) is decoded and stored under its tab name; from_wav raising
\* leaves load_harp_samples, and what was stored so far stays; after the
\* last file the function returns True
LoadFile(tab) ==
    /\ ui_pc = "load"
    /\ tab \in load_call.pending
    /\ IF Decodable(load_call.key, tab)
       THEN /\ harmonica_samples' =
                   [t \in DOMAIN harmonica_samples \cup {tab} |->
                       IF t = tab
                       THEN Clip(<<load_call.key, tab>>, HarpFolder(load_call.key)[tab])
                       ELSE harmonica_samples[t]]
            /\ IF load_call.pending = {tab}
               THEN load_call' = Returned(load_call.key, "True") /\ ui_pc' = "idle"
               ELSE /\ load_call' = [load_call EXCEPT !.pending = @ \ {tab}]
                    /\ UNCHANGED ui_pc
       ELSE /\ load_call' = Returned(load_call.key, "raised")
            /\ ui_pc' = "idle"
            /\ UNCHANGED harmonica_samples
    /\ UNCHANGED <<ClickVars, stop_call_and_response, AppVars, threads, nthreads,
                   ui_result, cr_result>>

\* on_control_change after the key menu changed, lines 180-189
OnKeyChange(key) ==
    /\ ui_pc = "idle"
    /\ key # current_key
    /\ current_key' = key
    /\ BeginLoad(key)
    /\ UNCHANGED <<ClickVars, stop_call_and_response, current_lick, bpm_slider,
                   call_and_response_active, call_and_response_thread, threads,
                   nthreads, ui_result, cr_result>>

\* load_new_lick, lines 245-247: a random practice lick, or None.
\* current_lick is the lick object itself, as the class docstring of
\* EarTrainerApp describes it and as every use of it in app.py assumes.
LoadNewLick(lick) ==
    /\ ui_pc = "idle"
    /\ lick # current_lick
    /\ current_lick' = lick
    /\ UNCHANGED <<harmonica_samples, ClickVars, stop_call_and_response, current_key,
                   bpm_slider, call_and_response_active, call_and_response_thread,
                   threads, nthreads, ui_pc, ui_result, cr_result,
                   load_call>>

\* the user drags the bpm slider
MoveSlider(bpm) ==
    /\ ui_pc = "idle"
    /\ bpm # bpm_slider
    /\ bpm_slider' = bpm
    /\ UNCHANGED <<harmonica_samples, ClickVars, stop_call_and_response, current_lick,
                   current_key, call_and_response_active, call_and_response_thread,
                   threads, nthreads, ui_pc, ui_result, cr_result,
                   load_call>>

\* EarTrainerApp.__init__ and AudioPlayer.__init__: key G is loaded, the
\* clicks are loaded if their files exist, a first lick is drawn
Init ==
    /\ harmonica_samples = LoadHarpSamples("G").samples
    /\ metronome_click_1 \in Click1Values
    /\ metronome_click_2 \in Click2Values
    /\ stop_call_and_response = FALSE
    /\ current_lick \in AppLicks \cup {NoLick}
    /\ current_key = "G"
    /\ bpm_slider = 120
    /\ call_and_response_active = FALSE
    /\ call_and_response_thread = 0
    /\ threads = [t \in Tids |-> Unborn]
    /\ nthreads = 0
    /\ ui_pc = "idle"
    /\ ui_result = NoResult
    /\ cr_result = NoBuild
    /\ load_call = Returned("G", "True")

Next ==
    \/ ToggleStart
    \/ ToggleNoLick
    \/ ToggleStop
    \/ JoinReturn
    \/ PlayCurrentLick
    \/ PlayLickEnd
    \/ \E key \in Keys : OnKeyChange(key)
    \/ \E tab \in Tabs : LoadFile(tab)
    \/ \E lick \in AppLicks \cup {NoLick} : LoadNewLick(lick)
    \/ \E bpm \in SliderValues : MoveSlider(bpm)
    \/ \E t \in Tids : Worker(t)

Spec == Init /\ [][Next]_vars

\* every started thread keeps being scheduled, every play() call returns,
\* and a join() whose thread has ended returns
FairSpec ==
    /\ Spec
    /\ \A t \in Tids : WF_vars(Worker(t))
    /\ WF_vars(JoinReturn)

----------------------------------------------------------------------------
(* The engine called directly: one synchronous call on given arguments.    *)
(* current_lick and bpm_slider hold the arguments of the call.             *)

SampleStates == {EmptySamples} \cup {LoadHarpSamples(k).samples : k \in Keys}

InitRender ==
    /\ harmonica_samples \in SampleStates
    /\ metronome_click_1 \in Click1Values
    /\ metronome_click_2 \in Click2Values
    /\ stop_call_and_response = FALSE
    /\ current_lick \in {Lick(d, TRUE, ts) : d \in LickDatas, ts \in TimeSigs}
    /\ current_key = "G"
    /\ bpm_slider \in EngineBpms
    /\ call_and_response_active = FALSE
    /\ call_and_response_thread = 0
    /\ threads = [t \in Tids |-> Unborn]
    /\ nthreads = 0
    /\ ui_pc = "idle"
    /\ ui_result = NoResult
    /\ cr_result = NoBuild
    /\ load_call = NoLoad

\* player.play_lick(lick_data, bpm)
CallPlayLick ==
    /\ ui_result = NoResult
    /\ ui_result' = PlayLick(harmonica_samples, current_lick.lick_data, bpm_slider)
    /\ UNCHANGED <<harmonica_samples, ClickVars, stop_call_and_response, AppVars,
                   threads, nthreads, ui_pc, cr_result, load_call>>

\* player.play_call_and_response(lick_data, bpm, time_signature_str) up to line 154
CallBuild ==
    /\ cr_result = NoBuild
    /\ cr_result' = BuildCallAndResponse(harmonica_samples, metronome_click_1,
                        metronome_click_2, current_lick.lick_data, bpm_slider,
                        current_lick.time_signature)
    /\ UNCHANGED <<harmonica_samples, ClickVars, stop_call_and_response, AppVars,
                   threads, nthreads, ui_pc, ui_result, load_call>>

NextRender == CallPlayLick \/ CallBuild

SpecRender == InitRender /\ [][NextRender]_vars

----------------------------------------------------------------------------
(* The engine driven by any caller: threads that run play_call_and_response *)
(* are started and the stop flag is set with no application in between.     *)

InitEngine ==
    /\ harmonica_samples = LoadHarpSamples("G").samples
    /\ metronome_click_1 \in Click1Values
    /\ metronome_click_2 \in Click2Values
    /\ stop_call_and_response = FALSE
    /\ current_lick = NoLick
    /\ current_key = "G"
    /\ bpm_slider = 120
    /\ call_and_response_active = FALSE
    /\ call_and_response_thread = 0
    /\ threads = [t \in Tids |-> Unborn]
    /\ nthreads = 0
    /\ ui_pc = "idle"
    /\ ui_result = NoResult
    /\ cr_result = NoBuild
    /\ load_call = Returned("G", "True")

\* Thread(target=player.play_call_and_response, args=(lick_data, bpm)).start()
EngineStart(lick, bpm) ==
    /\ nthreads < MaxThreads
    /\ nthreads' = nthreads + 1
    /\ threads' = [threads EXCEPT ![nthreads + 1] =
           Started(lick.lick_data, bpm, TimeSignatureOf(lick))]
    /\ UNCHANGED <<harmonica_samples, ClickVars, stop_call_and_response, AppVars,
                   ui_pc, ui_result, cr_result, load_call>>

\* player.stop_call_and_response = True
EngineStop ==
    /\ ~stop_call_and_response
    /\ stop_call_and_response' = TRUE
    /\ UNCHANGED <<harmonica_samples, ClickVars, AppVars, threads, nthreads,
                   ui_pc, ui_result, cr_result, load_call>>

NextEngine ==
    \/ \E lick \in AppLicks, bpm \in SliderValues : EngineStart(lick, bpm)
    \/ EngineStop
    \/ \E t \in Tids : Worker(t)

SpecEngine == InitEngine /\ [][NextEngine]_vars

----------------------------------------------------------------------------
(* The sample library driven directly: one caller makes load_harp_samples   *)
(* and play_lick calls one after the other on a player just constructed.    *)

InitLoad ==
    /\ harmonica_samples = EmptySamples
    /\ metronome_click_1 \in Click1Values
    /\ metronome_click_2 \in Click2Values
    /\ stop_call_and_response = FALSE
    /\ current_lick \in AppLicks
    /\ current_key = "G"
    /\ bpm_slider = 120
    /\ call_and_response_active = FALSE
    /\ call_and_response_thread = 0
    /\ threads = [t \in Tids |-> Unborn]
    /\ nthreads = 0
    /\ ui_pc = "idle"
    /\ ui_result = NoResult
    /\ cr_result = NoBuild
    /\ load_call = NoLoad

\* player.load_harp_samples(key)
CallLoad(key) ==
    /\ ui_pc = "idle"
    /\ BeginLoad(key)
    /\ UNCHANGED <<ClickVars, stop_call_and_response, AppVars, threads, nthreads,
                   ui_result, cr_result>>

NextLoad ==
    \/ \E key \in LoadKeys : CallLoad(key)
    \/ \E tab \in Tabs : LoadFile(tab)
    \/ PlayCurrentLick
    \/ PlayLickEnd

SpecLoad == InitLoad /\ [][NextLoad]_vars

----------------------------------------------------------------------------
(* The engine with stop requests made only while no session runs: a caller  *)
(* sets the stop flag when no thread is alive and starts a session when no  *)
(* thread is alive.                                                         *)

\* player.stop_call_and_response = True, with no session running
IdleStop ==
    /\ AliveThreads = {}
    /\ EngineStop

\* a session is started with no session running
IdleStart(lick, bpm) ==
    /\ AliveThreads = {}
    /\ EngineStart(lick, bpm)

NextIdleStop ==
    \/ IdleStop
    \/ \E lick \in AppLicks, bpm \in SliderValues : IdleStart(lick, bpm)
    \/ \E t \in Tids : Worker(t)

SpecIdleStop == InitEngine /\ [][NextIdleStop]_vars

----------------------------------------------------------------------------
(* The click track: play_call_and_response called directly, up to line 154, *)
(* on phrases of up to eight beats and on every time signature string of up *)
(* to MaxSigLen characters.                                                 *)

SigChars == {"4", "3", "0", "/", "x"}

SigStrings == SeqsUpTo(SigChars, MaxSigLen)

ClickDurations == {2, 4, 16}     \* 0.5, 1 and 4 beats

ClickLicks == SeqsUpTo([tab : {"-2"}, duration : ClickDurations], MaxLickLen)

InitClick ==
    /\ harmonica_samples = LoadHarpSamples("G").samples
    /\ metronome_click_1 \in Click1Values
    /\ metronome_click_2 \in Click2Values
    /\ stop_call_and_response = FALSE
    /\ current_lick \in {Lick(d, TRUE, ts) : d \in ClickLicks, ts \in SigStrings}
    /\ current_key = "G"
    /\ bpm_slider \in SliderValues
    /\ call_and_response_active = FALSE
    /\ call_and_response_thread = 0
    /\ threads = [t \in Tids |-> Unborn]
    /\ nthreads = 0
    /\ ui_pc = "idle"
    /\ ui_result = NoResult
    /\ cr_result = NoBuild
    /\ load_call = Returned("G", "True")

NextClick == CallBuild

SpecClick == InitClick /\ [][NextClick]_vars

----------------------------------------------------------------------------
(* Claims about the call-and-response session *)

ClicksLoaded == Truthy(metronome_click_1) /\ Truthy(metronome_click_2)

InLoop(t) == threads[t].pc \in {"while", "play_call", "play_response"}

\* C1: under fair scheduling, whenever the stop branch has set the flag and
\* waits in join(), the worker ends and the handler returns.  The code does
\* not meet it: a worker that has not yet reached line 157 clears the flag
\* again and loops for ever.
C1_StopEventuallyReturns == (ui_pc = "join") ~> (ui_pc = "idle")

\* C2: whenever the session is not marked active (stop has returned, or no
\* start was made yet) no worker thread is alive, so none is in a play() call.
C2_StoppedMeansWorkerEnded ==
    ~call_and_response_active =>
        \A t \in Tids : ~Alive(t) /\ ~Playing(t)

\* a session ran, stop was requested and has returned
C2_Witness ==
    /\ ~call_and_response_active
    /\ ui_pc = "idle"
    /\ stop_call_and_response
    /\ ClicksLoaded
    /\ call_and_response_thread # 0
    /\ threads[call_and_response_thread].pc = "done"

\* C3: a second call of play_call_and_response made while one is in its loop
\* is a no-op, so at most one thread is ever in the loop.  The code does not
\* meet it: the function has no guard and the second call loops as well.
C3_DuplicateStartIsNoOp == Cardinality({t \in Tids : InLoop(t)}) <= 1

\* C4: under any sequence of UI requests at most one worker thread is alive.
C4_AtMostOneWorker == Cardinality(AliveThreads) <= 1

\* a second session runs after the first was stopped
C4_Witness ==
    /\ nthreads = 2
    /\ threads[1].pc = "done"
    /\ Playing(2)

\* C5: with a metronome click missing a start request leaves the session
\* Idle.  The code does not meet it: the start branch marks the session
\* active before the thread finds the click missing and returns.
C5_NoClicksStaysIdle == ~ClicksLoaded => ~call_and_response_active

----------------------------------------------------------------------------
(* Claims about rendering, checked on direct calls (SpecRender) *)

RECURSIVE SeqSum(_)
SeqSum(q) == IF q = <<>> THEN 0 ELSE Head(q) + SeqSum(Tail(q))

ArgLick == current_lick.lick_data

ArgBpm == bpm_slider

LickPlayed == ui_result.outcome = "played"

CallBuilt == cr_result.outcome = "built"

\* the exact quotient 60000 * beats / bpm, rounded down and rounded to nearest
FloorMs(bpm, duration) == (MsPerMinute * duration) \div (BeatDen * bpm)

NearestMs(bpm, duration) ==
    (2 * MsPerMinute * duration + BeatDen * bpm) \div (2 * BeatDen * bpm)

AbsentTab(note) == note.tab # "rest" /\ ~HasTab(harmonica_samples, note.tab)

AllRest == \A i \in 1..Len(ArgLick) : ArgLick[i].tab = "rest"

PureSilence(buf) == \A i \in 1..Len(buf) : buf[i].kind = "silence"

\* the lick with every absent label replaced by "rest"
RestForAbsent ==
    [i \in 1..Len(ArgLick) |->
        IF AbsentTab(ArgLick[i]) THEN [ArgLick[i] EXCEPT !.tab = "rest"] ELSE ArgLick[i]]

\* C6: a call made on a lick with labels missing from the library has the
\* very outcome and buffer of the call on the lick with those labels replaced
\* by "rest", in play_lick and in the call phrase alike.
C6_AbsentLabelIsRest ==
    /\ ui_result.outcome # "none" =>
           ui_result = PlayLick(harmonica_samples, RestForAbsent, ArgBpm)
    /\ cr_result.outcome # "none" =>
           cr_result = BuildCallAndResponse(harmonica_samples, metronome_click_1,
                           metronome_click_2, RestForAbsent, ArgBpm,
                           current_lick.time_signature)

\* both renderers ran on a lick that names a label the loaded library lacks
C6_Witness ==
    /\ LickPlayed /\ CallBuilt
    /\ ArgBpm > 0
    /\ \E i \in 1..Len(ArgLick) : AbsentTab(ArgLick[i])
    /\ \E i \in 1..Len(ArgLick) : HasTab(harmonica_samples, ArgLick[i].tab)
    /\ RestForAbsent # ArgLick

\* what one note adds to the one-shot buffer when its slot is d ms long
LickSlotLen(note, d) ==
    IF note.tab = "rest" \/ AbsentTab(note) THEN d
    ELSE Min(harmonica_samples[note.tab].len, d)

\* what one note adds to the call phrase when its slot is d ms long
CallSlotLen(note, d) ==
    IF note.tab = "rest" \/ ~Truthy(GetSample(harmonica_samples, note.tab)) THEN d
    ELSE Min(harmonica_samples[note.tab].len, d)

\* C7 as stated: the slot of every event is 60000 / bpm * beats rounded to
\* the nearest millisecond.  Violated: the code cuts the product with int().
C7_SlotRoundedToNearest ==
    ArgBpm > 0 =>
        /\ LickPlayed => BufLen(ui_result.buffer) =
               SeqSum([i \in 1..Len(ArgLick) |->
                   LickSlotLen(ArgLick[i], NearestMs(ArgBpm, ArgLick[i].duration))])
        /\ CallBuilt => BufLen(cr_result.call_part) =
               SeqSum([i \in 1..Len(ArgLick) |->
                   CallSlotLen(ArgLick[i], NearestMs(ArgBpm, ArgLick[i].duration))])

\* C7 amended: the slot of every event is 60000 / bpm * beats cut down to a
\* whole millisecond, in play_lick and in the call phrase.
C7_SlotTruncated ==
    ArgBpm > 0 =>
        /\ LickPlayed => BufLen(ui_result.buffer) =
               SeqSum([i \in 1..Len(ArgLick) |->
                   LickSlotLen(ArgLick[i], FloorMs(ArgBpm, ArgLick[i].duration))])
        /\ CallBuilt => BufLen(cr_result.call_part) =
               SeqSum([i \in 1..Len(ArgLick) |->
                   CallSlotLen(ArgLick[i], FloorMs(ArgBpm, ArgLick[i].duration))])

\* both renderers ran on a rest whose slot is not a whole number of ms
C7_Witness ==
    /\ LickPlayed /\ CallBuilt
    /\ ArgBpm > 0
    /\ \E i \in 1..Len(ArgLick) :
           /\ ArgLick[i].tab = "rest"
           /\ FloorMs(ArgBpm, ArgLick[i].duration) # NearestMs(ArgBpm, ArgLick[i].duration)

IsClipRun(r) == r.kind = "clip"

PresentNote(note) ==
    /\ note.tab # "rest"
    /\ HasTab(harmonica_samples, note.tab)
    /\ harmonica_samples[note.tab].len > 0

ClipNamesOf(buf) == [i \in 1..Len(SelectSeq(buf, IsClipRun)) |->
                        SelectSeq(buf, IsClipRun)[i].clip]

C9_RestsRenderSilenceAnyLibrary ==
    (ArgBpm > 0 /\ AllRest /\ ArgLick # <<>> /\ ui_result.outcome # "none") =>
               /\ LickPlayed
               /\ PureSilence(ui_result.buffer)
               /\ BufLen(ui_result.buffer) =
                      SeqSum([i \in 1..Len(ArgLick) |-> FloorMs(ArgBpm, ArgLick[i].duration)])

\* C9 amended: for bpm > 0 and any library that holds at least one clip, one
\* named "rest" included, a lick of rests renders to silence of exactly the
\* summed duration; with no clip loaded nothing is rendered.
C9_RestsRenderSilence ==
    (ArgBpm > 0 /\ AllRest) =>
        /\ ui_result.outcome # "none" =>
               IF DOMAIN harmonica_samples = {}
               THEN ui_result = [outcome |-> "no_samples", buffer |-> <<>>]
               ELSE /\ LickPlayed
                    /\ PureSilence(ui_result.buffer)
                    /\ BufLen(ui_result.buffer) =
                           SeqSum([i \in 1..Len(ArgLick) |->
                               FloorMs(ArgBpm, ArgLick[i].duration)])
        /\ (cr_result.outcome # "none" /\ ClicksLoaded) =>
               IF DOMAIN harmonica_samples = {}
               THEN cr_result = [NoBuild EXCEPT !.outcome = "no_samples"]
               ELSE CallBuilt =>
                    /\ PureSilence(cr_result.call_part)
                    /\ BufLen(cr_result.call_part) =
                           SeqSum([i \in 1..Len(ArgLick) |->
                               FloorMs(ArgBpm, ArgLick[i].duration)])

\* rests were rendered by both functions with a clip named "rest" loaded
C9_Witness ==
    /\ ArgBpm > 0 /\ AllRest /\ Len(ArgLick) = 2
    /\ HasTab(harmonica_samples, "rest")
    /\ LickPlayed /\ CallBuilt
    /\ BufLen(ui_result.buffer) > 0

\* C10: with bpm <= 0 no buffer is produced and nothing is played.  The code
\* does not meet it: a negative bpm renders and plays, and bpm = 0 leaves
\* the function by an unhandled ZeroDivisionError.
C10_NonPositiveTempoRejected ==
    ArgBpm <= 0 => (~LickPlayed /\ ~CallBuilt)

----------------------------------------------------------------------------
(* Claims about the click track, checked on direct calls (SpecClick) *)

ArgSig == current_lick.time_signature

IsDigits(q) == q # <<>> /\ \A i \in 1..Len(q) : q[i] \in Digits

\* "N/D": one slash with a run of digits on either side
WellFormedSig(sig) ==
    \E k \in 1..Len(sig) :
        /\ sig[k] = "/"
        /\ IsDigits(SubSeq(sig, 1, k - 1))
        /\ IsDigits(SubSeq(sig, k + 1, Len(sig)))

\* the 1-based positions of the response part that hold the accent click
AccentPositions(part) ==
    {k \in 1..Len(part) : part[k].clip = metronome_click_1.name}

\* C11: a built response part has one click per beat, and beat i (from 0)
\* is cut from the accent clip exactly when i mod beats_per_measure = 0 and
\* from the normal clip otherwise.
C11_AccentOnFirstBeat ==
    CallBuilt =>
        LET part == cr_result.response_part
        IN  /\ Len(part) = NumBeatsTotal(ArgLick)
            /\ \A i \in 0..(Len(part) - 1) :
                   /\ part[i + 1].kind = "clip"
                   /\ part[i + 1].clip \in {metronome_click_1.name, metronome_click_2.name}
                   /\ (part[i + 1].clip = metronome_click_1.name)
                          <=> (i % BeatsPerMeasure(ArgSig) = 0)

\* eight beats in 4/4: the accent falls on beats 0 and 4 and nowhere else
C11_Witness ==
    /\ CallBuilt
    /\ ArgSig = TimeSig44
    /\ Len(cr_result.response_part) = 8
    /\ AccentPositions(cr_result.response_part) = {1, 5}

\* C12: on a time signature string that is not "N/D" the call has the very
\* outcome and buffers of the call with "4/4": the fallback is not fatal and
\* the function goes on to its loop whenever it would with "4/4".
C12_MalformedSigIsFourFour ==
    (cr_result.outcome # "none" /\ ~WellFormedSig(ArgSig)) =>
        cr_result = BuildCallAndResponse(harmonica_samples, metronome_click_1,
                        metronome_click_2, ArgLick, ArgBpm, TimeSig44)

\* "3/x": the first field alone reads as 3, the accents are those of 4/4
C12_Witness ==
    /\ ArgSig = <<"3", "/", "x">>
    /\ CallBuilt
    /\ Len(cr_result.response_part) = 8
    /\ AccentPositions(cr_result.response_part) = {1, 5}

\* C13: the response part has as many clicks as the phrase has beats.  The
\* code does not meet it: the beat total is cut to a whole number (line 144),
\* so a phrase of 1.5 beats gets one click and one of half a beat gets none.
C13_ClicksEqualTotalBeats ==
    CallBuilt => Len(cr_result.response_part) * BeatDen = TotalDuration(ArgLick)

----------------------------------------------------------------------------
(* Claims about the sample library, checked on direct calls (SpecLoad) *)

LoadReturned == load_call.result \in {"True", "False", "raised"}

\* the last one-shot play used a clip of the given key
PlayedClipOf(key) ==
    \E i \in 1..Len(ui_result.buffer) :
        /\ IsClipRun(ui_result.buffer[i])
        /\ ui_result.buffer[i].clip[1] = key

\* the mapping a complete load of the key's folder gives
WholeKey(key) ==
    [t \in DOMAIN HarpFolder(key) |-> Clip(<<key, t>>, HarpFolder(key)[t])]

\* C14: a load of a key whose folder is missing returns False, and a load
\* that returned False has left the mapping empty, so that get(label) is
\* None for every label, whatever was loaded before.
C14_MissingKeyLeavesEmpty ==
    /\ (LoadReturned /\ ~HarpFolderExists(load_call.key)) => load_call.result = "False"
    /\ load_call.result = "False" =>
           /\ DOMAIN harmonica_samples = {}
           /\ \A tab \in Tabs : GetSample(harmonica_samples, tab) = NoClip

\* key C was asked for after clips of key G had been loaded and played
C14_Witness ==
    /\ load_call = Returned("C", "False")
    /\ PlayedClipOf("G")
    /\ ui_pc = "idle"

\* C15: at every moment the mapping holds clips of the key of the latest
\* load call only, and once that call has returned True it holds exactly
\* the labels found for that key.
C15_OneKeyOnly ==
    /\ \A t \in DOMAIN harmonica_samples :
           harmonica_samples[t].name = <<load_call.key, t>>
    /\ load_call.result = "True" =>
           /\ DOMAIN harmonica_samples = DOMAIN HarpFolder(load_call.key)
           /\ \A t \in DOMAIN harmonica_samples :
                  harmonica_samples[t] = WholeKey(load_call.key)[t]

\* key A was loaded after clips of key G had been loaded and played; G has
\* a label "rest" that A lacks
C15_Witness ==
    /\ load_call = Returned("A", "True")
    /\ PlayedClipOf("G")
    /\ DOMAIN harmonica_samples = {"-2", "4"}

\* C16: a load that a decode error ended has left the mapping whole (the
\* clips of one key) or empty.  The code does not meet it: the clips stored
\* before the file that failed stay in the mapping.
C16_FailedLoadLeavesDefinedState ==
    load_call.result = "raised" =>
        \/ DOMAIN harmonica_samples = {}
        \/ \E k \in LoadKeys :
               /\ HarpFolderExists(k)
               /\ DOMAIN harmonica_samples = DOMAIN HarpFolder(k)
               /\ \A t \in DOMAIN harmonica_samples :
                      harmonica_samples[t] = WholeKey(k)[t]

----------------------------------------------------------------------------
(* Claims about playback and the session *)

\* C17: a play_lick call made with an empty mapping returns at line 79
\* whatever the lick and the bpm: no buffer is built, nothing is played, no
\* exception leaves the call and no other state changes.
C17_EmptyLibraryIsNoOp ==
    [][(DOMAIN harmonica_samples = {} /\ ui_result' # ui_result) =>
          /\ ui_result' = [outcome |-> "no_samples", buffer |-> <<>>]
          /\ UNCHANGED <<harmonica_samples, ClickVars, stop_call_and_response,
                         AppVars, threads, nthreads, ui_pc, cr_result,
                         load_call>>]_vars

\* play_lick was called on two notes at bpm 0 with no sample loaded
C17_Witness ==
    /\ DOMAIN harmonica_samples = {}
    /\ ui_result.outcome = "no_samples"
    /\ ArgBpm = 0
    /\ Len(ArgLick) = 2

\* C18: the UI thread is never inside play() of a one-shot lick while a
\* worker thread is inside play() of a call or a response.  The code does
\* not meet it: play_current_lick does not look at the session.
C18_OnePlaybackAtATime ==
    ~(ui_pc = "play_lick" /\ \E t \in Tids : Playing(t))

\* C19: no step of load_harp_samples is taken while the session is marked
\* active.  The code does not meet it: on_control_change loads the new key
\* whatever the state of the session.
C19_NoLoadWhileRunning ==
    [][load_call' # load_call => ~call_and_response_active]_vars

----------------------------------------------------------------------------
(* Claims about the loop of lines 156-162 *)

\* C21: once the stop branch has set the flag for the running session, the
\* worker begins at most one more play() call before it ends.  The code does
\* not meet it: a flag set before the worker reached line 157 is cleared
\* there, and the worker goes on beginning calls and responses.
C21_AtMostOneSegmentAfterStop ==
    \A t \in Tids : threads[t].begun_after_stop <= 1

\* the step of thread t changes where it stands
Moves(t) == threads'[t].pc # threads[t].pc

\* C22: a call is begun only from the loop test of line 158, which is
\* reached only from line 157 or from the end of a response, and a response
\* is begun only from the end of the call of the same turn of the loop: the
\* segments played are call, response, call, response, ...
C22_CallThenResponse ==
    [][\A t \in Tids : Moves(t) =>
          /\ threads'[t].pc = "play_call" => threads[t].pc = "while"
          /\ threads'[t].pc = "play_response" => threads[t].pc = "play_call"
          /\ threads'[t].pc = "while" =>
                 threads[t].pc \in {"reset_flag", "play_response"}]_vars

\* a response is being played after its call: the thread holds both buffers
C22_Witness ==
    \E t \in Tids :
        /\ threads[t].pc = "play_response"
        /\ threads[t].call_part # <<>>
        /\ threads[t].response_part # <<>>
        /\ threads[t].call_part # threads[t].response_part

\* C23: while the session is marked active and the stop branch has not been
\* entered, the session's thread is alive.  The code does not meet it: the
\* thread returns at once when no sample or no click is loaded, and the
\* session stays marked active.
C23_ActiveMeansWorkerAlive ==
    (call_and_response_active /\ ui_pc # "join") =>
        /\ call_and_response_thread # 0
        /\ Alive(call_and_response_thread)

----------------------------------------------------------------------------
(* Claims about the two renderers and the click track *)

\* C24: when play_lick and play_call_and_response both rendered the same
\* lick at the same bpm from the same library, the call phrase is the buffer
\* of play_lick.  The code does not meet it: line 137 tests the truth value
\* of the clip where line 93 tests for None, and a clip of length 0 is
\* false, so the call phrase holds a silence where play_lick adds nothing.
C24_RenderersAgree ==
    (LickPlayed /\ CallBuilt) => cr_result.call_part = ui_result.buffer

\* C25: the build of the click track never leaves the function by a fault,
\* and the beats_per_measure it divides by is at least 1.  The code does not
\* meet it: "0/4" parses to 0 and line 147 raises ZeroDivisionError.
C25_ClickTrackNeverFaults ==
    /\ cr_result.outcome # "ZeroDivisionError"
    /\ (CallBuilt /\ cr_result.response_part # <<>>) => BeatsPerMeasure(ArgSig) >= 1

====
